---------------------------- MODULE Spec2Model ----------------------------
(***************************************************************************)
(* Model of the OSTMS firmware (src/src/OSTMS_main.cpp): the acquisition   *)
(* loop of a Teensy 4.1 that samples six thermistors and one optional      *)
(* reference probe through an ADS124S08, converts each raw code with a     *)
(* calibration table and streams one JSON frame per cycle.                 *)
(*                                                                         *)
(* Numeric conventions.  The firmware computes in float; the model uses    *)
(* fixed point: resistances are integers in centi-ohm (1/100 ohm, every    *)
(* table entry is exact in that unit), temperatures are integers in        *)
(* milli-degree Celsius, and the millisecond clock is counted in units of  *)
(* 8 ms so that the 32-bit wrap of millis() (2^32 ms = 2^29 units) and     *)
(* messageInterval (5000 ms = 625 units) are both exact.                   *)
(***************************************************************************)
EXTENDS Integers, Sequences, FiniteSets, TLC

(***************************************************************************)
(* Program constants                                                       *)
(***************************************************************************)
dataPoints == 111

NUM_THERMISTORS == 6

ADC_FULLSCALE == 8388608

R_DIVIDER == 10000

\* const unsigned long messageInterval = 5000 (ms), in 8 ms units
messageInterval == 5000 \div 8

\* unsigned long is 32 bits on the target: millis() wraps at 2^32 ms,
\* that is 2^29 units of 8 ms
MillisModulus == 2^29

\* float temperatures[dataPoints] = {0, 1, ..., 110}, in milli-degree
temperatures == [i \in 1..dataPoints |-> (i - 1) * 1000]

\* float resistancesTherm[dataPoints], in centi-ohm.  Entry 62 (index 61 in
\* the source, 3669.0) is out of order in the source and is kept as it is.
resistancesTherm ==
  <<
      2949000, 2815000, 2689000, 2569000, 2455000, 2346000, 2243000, 2145000, 2052000, 1963000,
      1879000, 1798000, 1722000, 1649000, 1579000, 1513000, 1450000, 1390000, 1333000, 1279000,
      1226000, 1177000, 1129000, 1084000, 1041000, 1000000, 960500, 922700, 886700, 852300,
      819400, 788000, 757900, 729100, 701600, 675200, 650000, 625800, 602600, 580500,
      559200, 538900, 519300, 500600, 482700, 465500, 448900, 433100, 417900, 403300,
      389300, 375800, 362900, 350400, 338500, 327000, 316000, 305400, 295200, 285400,
      276000, 366900, 258200, 249700, 241700, 233900, 226400, 219100, 212200, 205500,
      199000, 192800, 186800, 181000, 175400, 170000, 164800, 159800, 154900, 150300,
      145800, 141400, 137200, 133200, 129300, 125500, 121800, 118300, 114900, 111600,
      108400, 105300, 102300, 99420, 96630, 93930, 91320, 88790, 86340, 83970,
      81680, 79460, 77310, 75230, 73210, 71260, 69360, 67530, 65750, 64030,
      62350
  >>

\* float resistancesRTD[dataPoints], in centi-ohm
resistancesRTD ==
  <<
      10000, 10039, 10078, 10117, 10156, 10195, 10234, 10273, 10312, 10351,
      10390, 10429, 10468, 10507, 10546, 10585, 10624, 10663, 10702, 10740,
      10779, 10818, 10857, 10896, 10935, 10973, 11012, 11051, 11090, 11128,
      11167, 11206, 11245, 11283, 11322, 11361, 11399, 11438, 11477, 11515,
      11554, 11593, 11631, 11670, 11708, 11747, 11785, 11824, 11862, 11901,
      11940, 11978, 12016, 12055, 12093, 12132, 12170, 12209, 12247, 12286,
      12324, 12362, 12401, 12439, 12477, 12517, 12555, 12593, 12632, 12670,
      12708, 12746, 12785, 12823, 12861, 12899, 12938, 12976, 13014, 13052,
      13090, 13128, 13167, 13205, 13243, 13281, 13319, 13357, 13395, 13433,
      13471, 13509, 13547, 13585, 13623, 13661, 13699, 13737, 13775, 13813,
      13851, 13889, 13927, 13965, 14003, 14039, 14077, 14115, 14153, 14191,
      14229
  >>

(***************************************************************************)
(* readData: raw code -> resistance (lines 296-297)                        *)
(***************************************************************************)
\* The value a float division by zero yields (+inf), and the value at which
\* the fixed-point resistance saturates (about 5.4 Mohm, far above every
\* table entry).
ResInf == 2^29

Min(a, b) == IF a <= b THEN a ELSE b

\* <<q, r>> with a * b = q * c + r and 0 <= r < c, for a, b >= 0 and c > 0,
\* computed bit by bit over b so that no intermediate exceeds 32 bits; q
\* saturates at ResInf.
RECURSIVE MulDiv(_, _, _)
MulDiv(a, b, c) ==
  IF b = 0 THEN <<0, 0>>
  ELSE LET h  == MulDiv(a, b \div 2, c)
           r2 == 2 * h[2] + (b % 2) * a
           q2 == 2 * h[1] + (r2 \div c)
       IN  <<Min(q2, ResInf), r2 % c>>

\* voltage_RT = data / ADC_FULLSCALE * VS;
\* thermistance = R_DIVIDER * (1 / ((VS / voltage_RT) - 1))
\*              = R_DIVIDER * data / (ADC_FULLSCALE - data)    (in centi-ohm)
\* data = ADC_FULLSCALE divides by zero (+inf); data = 0 gives 1/inf = 0;
\* a negative code or a code above full scale gives a negative resistance,
\* kept as -1: it is only ever compared with the positive table entries.
thermistance(data) ==
  IF data = ADC_FULLSCALE THEN ResInf
  ELSE IF data < 0 \/ data > ADC_FULLSCALE THEN -1
  ELSE MulDiv(R_DIVIDER * 100, data, ADC_FULLSCALE - data)[1]

(***************************************************************************)
(* Table look-ups (lines 210-262).  The result is [wrote, temp]: wrote     *)
(* tells whether temps[channel_1] was assigned, temp is the value.         *)
(***************************************************************************)
\* Mutant of Interpolate: the offset is taken from the wrong end of the
\* bracket
Interpolate_WrongEnd(res, resistance, i) ==
  LET tempDiff == temperatures[i] - temperatures[i + 1]
      resDiff  == res[i] - res[i + 1]
  IN  temperatures[i] + ((tempDiff * (resistance - res[i + 1])) \div resDiff)

\* Linear interpolation inside the bracket (i, i+1), lines 224-227 / 252-255
Interpolate(res, resistance, i) ==
  LET tempDiff == temperatures[i] - temperatures[i + 1]
      resDiff  == res[i] - res[i + 1]
  IN  temperatures[i + 1] + ((tempDiff * (resistance - res[i + 1])) \div resDiff)

\* The first i of the for loop whose bracket test succeeds, 0 when none does
FirstBracketTherm(resistance) ==
  LET hits == {i \in 1..(dataPoints - 1) :
                 resistance >= resistancesTherm[i + 1] /\ resistance <= resistancesTherm[i]}
  IN  IF hits = {} THEN 0 ELSE CHOOSE i \in hits : \A j \in hits : i <= j

FirstBracketRTD(resistance) ==
  LET hits == {i \in 1..(dataPoints - 1) :
                 resistance <= resistancesRTD[i + 1] /\ resistance >= resistancesRTD[i]}
  IN  IF hits = {} THEN 0 ELSE CHOOSE i \in hits : \A j \in hits : i <= j

\* Mutant of getCelcius2: the look-up returns its value without storing it
getCelcius2_NoStore(resistance) == [wrote |-> FALSE, temp |-> -999000]

\* Reference thermistor look-up
getCelcius2(resistance) ==
  IF resistance >= resistancesTherm[1]
    THEN [wrote |-> TRUE, temp |-> temperatures[1]]
  ELSE IF resistance <= resistancesTherm[dataPoints]
    THEN [wrote |-> TRUE, temp |-> temperatures[dataPoints]]
  ELSE LET i == FirstBracketTherm(resistance)
       IN  IF i # 0
             THEN [wrote |-> TRUE, temp |-> Interpolate(resistancesTherm, resistance, i)]
             ELSE [wrote |-> FALSE, temp |-> -999000]

\* Mutant of getCelcius3: the range tests copied from getCelcius2 without
\* reversing them
getCelcius3_AsTherm(resistance) ==
  IF resistance >= resistancesRTD[1]
    THEN [wrote |-> TRUE, temp |-> temperatures[1]]
  ELSE IF resistance <= resistancesRTD[dataPoints]
    THEN [wrote |-> TRUE, temp |-> temperatures[dataPoints]]
  ELSE [wrote |-> FALSE, temp |-> -999000]

\* Reference RTD look-up
getCelcius3(resistance) ==
  IF resistance <= resistancesRTD[1]
    THEN [wrote |-> TRUE, temp |-> temperatures[1]]
  ELSE IF resistance >= resistancesRTD[dataPoints]
    THEN [wrote |-> TRUE, temp |-> temperatures[dataPoints]]
  ELSE LET i == FirstBracketRTD(resistance)
       IN  IF i # 0
             THEN [wrote |-> TRUE, temp |-> Interpolate(resistancesRTD, resistance, i)]
             ELSE [wrote |-> FALSE, temp |-> -999000]

\* readData(adc, isRef), lines 296-306: the look-up chosen by isRef
Convert(data, isRef) ==
  IF isRef THEN getCelcius3(thermistance(data)) ELSE getCelcius2(thermistance(data))

(***************************************************************************)
(* Host lines and the command interpreter (lines 328-405).  A C string is  *)
(* a sequence of one-character strings.                                    *)
(***************************************************************************)
REF == <<"R", "E", "F">>

REFLF == <<"R", "E", "F", "\n">>

ON == <<"O", "N">>

OFF == <<"O", "F", "F">>

\* What dereferencing an uninitialised tokens[] entry may find: any string,
\* or no readable memory at all (WildPtr).
WildPtr == <<"?wild?">>

GarbageTokens == {REF, ON, OFF, <<"?">>, WildPtr}

\* The lines a host transmission may hold
HostLines ==
  { <<"R", "E", "F", " ", "O", "N">>,
    <<"R", "E", "F", " ", "O", "F", "F">>,
    <<"R", "E", "F", " ", "O", "N", "\n">>,
    <<"R", "E", "F", " ", "O", "F", "F", "\n">>,
    <<"R", "E", "F", "\n", " ", "O", "N">>,
    <<"F", "O", "O", " ", "B", "A", "R">>,
    <<"r", "e", "f", " ", "O", "N">>,
    <<"\n">>,
    <<"R", "E", "F">>,
    <<"R", "E", "F", "\n">>,
    <<"R", "E", "F", " ", "X">>,
    <<"R", "E", "F", " ", "o", "n">> }

\* strtok(command, " ") repeated until NULL: the maximal runs of characters
\* other than the delimiter, in order.  cur is the token being collected.
RECURSIVE Tokenize(_, _)
Tokenize(s, cur) ==
  IF s = <<>> THEN (IF cur = <<>> THEN <<>> ELSE <<cur>>)
  ELSE IF Head(s) = " "
    THEN (IF cur = <<>> THEN <<>> ELSE <<cur>>) \o Tokenize(Tail(s), <<>>)
    ELSE Tokenize(Tail(s), Append(cur, Head(s)))

Notice(type, message) == [type |-> type, message |-> message, temps |-> <<>>]

\* tokens[k-1] as parse_command reads it: the k-th token when strtok
\* produced one, otherwise whatever the uninitialised array entry holds.
TokenRead(toks, k) == IF Len(toks) >= k THEN {toks[k]} ELSE GarbageTokens

\* Mutant of token0: the ! before strcmp() forgotten, so the test is inverted
token0_Inverted(t0) == IF ~(t0 = REFLF \/ t0 = REF) THEN "_REF" ELSE "-1"

\* Lines 369-372: token0[0] is _REF when tokens[0] is "REF\n" or "REF",
\* and stays -1 otherwise
token0(t0) == IF t0 = REFLF \/ t0 = REF THEN "_REF" ELSE "-1"

\* Mutant of RefCase: the ! before strcmp(tokens[1], "ON") forgotten
RefCase_Inverted(t1, ref) ==
  IF t1 # ON
    THEN [refOn |-> TRUE, out |-> <<Notice("Info", "Ref On")>>, fault |-> FALSE]
  ELSE IF t1 = OFF
    THEN [refOn |-> FALSE, out |-> <<Notice("Info", "Ref Off")>>, fault |-> FALSE]
  ELSE [refOn |-> ref, out |-> <<>>, fault |-> FALSE]

\* case _REF, lines 379-394, for tokens[1] = t1: there is no final else
RefCase(t1, ref) ==
  IF t1 = ON
    THEN [refOn |-> TRUE, out |-> <<Notice("Info", "Ref On")>>, fault |-> FALSE]
  ELSE IF t1 = OFF
    THEN [refOn |-> FALSE, out |-> <<Notice("Info", "Ref Off")>>, fault |-> FALSE]
  ELSE [refOn |-> ref, out |-> <<>>, fault |-> FALSE]

\* default, lines 397-401
DefaultCase(ref) ==
  [refOn |-> ref, out |-> <<Notice("Error", "ERROR UNKNOWN COMMAND")>>, fault |-> FALSE]

\* A strcmp() through a pointer to no readable memory, or a store outside
\* of command[] or tokens[] that hits something the program needs: what the
\* program does from there on is undefined and is not followed
Fault(ref) == [refOn |-> ref, out |-> <<>>, fault |-> TRUE]

\* Lines 369-402 for tokens[0] = t0 and tokens[1] in t1s; tokens[1] is read
\* only in case _REF
Dispatch(t0, t1s, ref) ==
  IF t0 = WildPtr THEN {Fault(ref)}
  ELSE IF token0(t0) = "_REF"
    THEN {IF t1 = WildPtr THEN Fault(ref) ELSE RefCase(t1, ref) : t1 \in t1s}
  ELSE {DefaultCase(ref)}

\* char command[20], line 328
CommandSize == 20

\* char *tokens[4], line 349
TokenSlots == 4

\* parse_command(): the set of outcomes [refOn, out, fault] for the buffer
\* cmd when the flag is ref; more than one outcome only where the code
\* reads an uninitialised tokens[] entry, or where the loop of lines
\* 359-365, which has no bound, stores a pointer behind tokens[3].
parse_command(cmd, ref) ==
  IF cmd = <<>>
    THEN {[refOn |-> ref, out |-> <<>>, fault |-> FALSE]}
    ELSE LET toks == Tokenize(cmd, <<>>)
         IN  UNION { Dispatch(t0, TokenRead(toks, 2), ref) : t0 \in TokenRead(toks, 1) }
               \cup (IF Len(toks) > TokenSlots THEN {Fault(ref)} ELSE {})

(***************************************************************************)
(* State                                                                   *)
(***************************************************************************)
VARIABLES
  pc,               \* where the main thread is: "loop" between two iterations
                    \* of loop(), otherwise a point inside handleConversion()
  currentTime,      \* loop(): unsigned long currentTime = millis()
  lastMessageTime,  \* timestamp of the last "Alive and working." notice
  RDY_1,            \* the conversion-ready flag shared with the interrupt
  channel_1,        \* thermistor to read
  dStatus,          \* status byte of the last conversion read
  statusOld,        \* status byte loop() recorded last
  refOn,            \* reference channel enabled
  temps,            \* float temps[7]
  tsaDoc,           \* tsaDoc["temps"], the array of the telemetry document
  adcConv,          \* ADC: input being converted, -1 when no conversion runs
  adcMux,           \* ADC: input selected by the last INPMUX write
  adcData,          \* ADC: conversion data register
  adcDataOf,        \* ADC: input whose conversion filled the data register
  adcStatus,        \* ADC: status register
  serialRx,         \* host bytes waiting in the Serial receive buffer
  ms,               \* millis(), in units of 8 ms
  out,              \* what the step just taken wrote to Serial
  uptime,           \* history: elapsed time, not wrapped
  sampleUp,         \* history: uptime when currentTime was sampled
  hbUp,             \* history: sampleUp of the last heartbeat, -1 before it
  ticks,            \* history: number of clock steps taken
  sigNew,           \* history: a ready signal was raised since the last read
  lastRead,         \* history: input selected at the last conversion read
  fresh,            \* history: slots of temps written since the last frame
  emitFresh,        \* history: value of fresh when the last frame was emitted
  refAtWrap,        \* history: refOn as the last wrap tested it (line 538)
  lkIn,             \* look-up bench: the function applied and its argument
  lkOut             \* look-up bench: the result, once the function was applied

progVars == <<pc, currentTime, lastMessageTime, RDY_1, channel_1, dStatus, statusOld,
              refOn, temps, tsaDoc>>

adcVars == <<adcConv, adcMux, adcData, adcDataOf, adcStatus>>

clockVars == <<ms, uptime, ticks>>

histVars == <<sampleUp, hbUp, sigNew, lastRead, fresh, emitFresh, refAtWrap>>

lkVars == <<lkIn, lkOut>>

vars == <<progVars, adcVars, serialRx, clockVars, out, histVars, lkVars>>

(***************************************************************************)
(* Bounds of the model and input sets                                      *)
(***************************************************************************)
\* Number of clock steps explored
MaxTicks == 4

\* A long clock step: 2.4 s less than the period of millis()
LongStep == MillisModulus - 300

\* Clock steps (8 ms units): 1 s, 4 s, and the long step
TickSteps == {125, 500, LongStep}

\* Raw codes the ADC may deliver for each input: a different one for each
\* thermistor (about 5.6 kohm to 9.1 kohm) and about 114.5 ohm for the
\* reference probe
RawCodes(input) == IF input = 6 THEN {95000} ELSE {3000000 + 200000 * input}

\* Values an uninitialised uint8_t status may hold in loop(): bits 7 (POR)
\* and 6 (RDY) in the combinations the code distinguishes
StatusGarbage == {0, 64, 128}

(***************************************************************************)
(* Initial state: setup() has run.  The telemetry document holds seven     *)
(* zeros (lines 417-425), the interrupt is attached and the first          *)
(* conversion, of input 0, has been started (line 458).                    *)
(***************************************************************************)
Zero7 == [i \in 1..7 |-> 0]

Started ==
  /\ pc = "loop"
  /\ currentTime = 0
  /\ lastMessageTime = 0
  /\ RDY_1 = FALSE
  /\ channel_1 = 0
  /\ dStatus = 0
  /\ statusOld = 255
  /\ refOn = FALSE
  /\ temps = Zero7
  /\ tsaDoc = Zero7
  /\ adcConv = 0
  /\ adcMux = 0
  /\ adcData = 0
  /\ adcDataOf = -1
  /\ adcStatus = 0
  /\ serialRx = <<>>
  /\ ms = 0
  /\ out = <<>>
  /\ uptime = 0
  /\ sampleUp = 0
  /\ hbUp = -1
  /\ ticks = 0
  /\ sigNew = FALSE
  /\ lastRead = -1
  /\ fresh = {}
  /\ emitFresh = {}
  /\ refAtWrap = FALSE

\* The look-up bench is idle while the program runs
NoLookup == [fn |-> "none", arg |-> 0, ref |-> FALSE]

NoResult == [done |-> FALSE, wrote |-> FALSE, temp |-> 0]

Init == Started /\ lkIn = NoLookup /\ lkOut = NoResult

(***************************************************************************)
(* Environment: the clock, the host and the ADC                            *)
(***************************************************************************)
\* millis() advances; unsigned long arithmetic wraps at MillisModulus.  The
\* long step is taken only before the first wrap.
Tick ==
  /\ UNCHANGED lkVars
  /\ ticks < MaxTicks
  /\ \E d \in TickSteps :
       /\ d = LongStep => uptime < MillisModulus
       /\ ms' = (ms + d) % MillisModulus
       /\ uptime' = uptime + d
  /\ ticks' = ticks + 1
  /\ out' = <<>>
  /\ UNCHANGED <<progVars, adcVars, serialRx, histVars>>

\* millis() advances for ever: a quarter of its period (12 days) at a time,
\* so that the clock takes four values.  The main thread samples millis()
\* (line 468) at least once in such a step: the clock moves on only from a
\* value that was sampled.  The elapsed-time history is not kept.
QuarterPeriod == MillisModulus \div 4

Clock ==
  /\ UNCHANGED lkVars
  /\ currentTime = ms
  /\ ms' = (ms + QuarterPeriod) % MillisModulus
  /\ out' = <<>>
  /\ UNCHANGED <<progVars, adcVars, serialRx, uptime, ticks, histVars>>

\* The host transmits one line; it waits until the previous one was read.
HostSend ==
  /\ UNCHANGED lkVars
  /\ serialRx = <<>>
  /\ serialRx' \in HostLines
  /\ out' = <<>>
  /\ UNCHANGED <<progVars, adcVars, clockVars, histVars>>

\* Host transmissions at and beyond the sizes of command[] and tokens[]:
\* 19, 20 and 21 bytes without a space, and lines of four and of five words
Repeat(ch, n) == [i \in 1..n |-> ch]

FloodLines ==
  { Repeat("A", CommandSize - 1),
    Repeat("A", CommandSize),
    Repeat("A", CommandSize + 1),
    <<"R", "E", "F", " ", "O", "N", " ", "A", " ", "B">>,
    <<"A", " ", "B", " ", "C", " ", "D", " ", "E">> }

\* The host transmits such a line
HostFlood ==
  /\ UNCHANGED lkVars
  /\ serialRx = <<>>
  /\ serialRx' \in FloodLines
  /\ out' = <<>>
  /\ UNCHANGED <<progVars, adcVars, clockVars, histVars>>

\* The running conversion completes: the ADC latches a result, pulls DRDY
\* low, and the FALLING interrupt runs adsReady_1(), which sets the flag.
\* Interrupts are never masked, so this may happen between any two steps of
\* the main thread.  RDY_1 is a plain (not volatile) bool, but every access
\* of the main thread is separated from the next by calls the compiler
\* cannot see through, so each is a real load or store where the source
\* has it.
adsReady_1 ==
  /\ UNCHANGED lkVars
  /\ adcConv # -1
  /\ adcConv' = -1
  /\ adcData' \in RawCodes(adcMux)
  /\ adcDataOf' = adcMux
  /\ RDY_1' = TRUE
  /\ sigNew' = TRUE
  /\ out' = <<>>
  /\ UNCHANGED <<pc, currentTime, lastMessageTime, channel_1, dStatus, statusOld, refOn,
                 temps, tsaDoc , adcMux, adcStatus, serialRx, clockVars,
                 sampleUp, hbUp, lastRead, fresh, emitFresh, refAtWrap>>

(***************************************************************************)
(* loop(), lines 467-513                                                   *)
(***************************************************************************)
\* Mutant of HeartbeatDue: the difference is taken in signed arithmetic
HeartbeatDue_Signed(now, last) == now - last >= messageInterval

\* Mutant of HeartbeatDue: the deadline is computed by addition, which wraps
HeartbeatDue_Sum(now, last) == now >= (last + messageInterval) % MillisModulus

\* currentTime - lastMessageTime >= messageInterval, in unsigned arithmetic
HeartbeatDue(now, last) == ((now - last) % MillisModulus) >= messageInterval

Heartbeat == Notice("Info", "Alive and working.")

bitRead(value, bit) == (value \div (2^bit)) % 2

\* Lines 476-512 for the time sample ct (taken when uptime was ctUp): the
\* heartbeat, then the status check.  status is read uninitialised there:
\* g ranges over what it may hold.
LoopTail(ct, ctUp) ==
  LET hb == HeartbeatDue(ct, lastMessageTime)
  IN  /\ lastMessageTime' = (IF hb THEN ct ELSE lastMessageTime)
      /\ hbUp' = (IF hb THEN ctUp ELSE hbUp)
      /\ \E g \in StatusGarbage :
           IF statusOld # dStatus
             THEN /\ statusOld' = g
                  /\ adcStatus' =
                       (IF bitRead(g, 7) = 1 /\ bitRead(g, 6) = 0 THEN g - 128 ELSE adcStatus)
                  /\ out' = (IF hb THEN <<Heartbeat>> ELSE <<>>)
                              \o <<[type |-> "print", message |-> "status", temps |-> <<g>>]>>
             ELSE /\ UNCHANGED <<statusOld, adcStatus>>
                  /\ out' = (IF hb THEN <<Heartbeat>> ELSE <<>>)

\* One whole iteration of loop() that finds RDY_1 false
LoopIdle ==
  /\ UNCHANGED lkVars
  /\ pc = "loop"
  /\ ~RDY_1
  /\ currentTime' = ms
  /\ sampleUp' = uptime
  /\ LoopTail(ms, uptime)
  /\ UNCHANGED <<pc, RDY_1, channel_1, dStatus, refOn, temps, tsaDoc ,
                 adcConv, adcMux, adcData, adcDataOf, serialRx, clockVars,
                 sigNew, lastRead, fresh, emitFresh, refAtWrap>>

\* Lines 468-472: loop() samples millis(), finds RDY_1 set and calls
\* handleConversion(), whose own test of RDY_1 (line 525) succeeds as well
LoopTake ==
  /\ UNCHANGED lkVars
  /\ pc = "loop"
  /\ RDY_1
  /\ currentTime' = ms
  /\ sampleUp' = uptime
  /\ pc' = "read"
  /\ out' = <<>>
  /\ UNCHANGED <<lastMessageTime, RDY_1, channel_1, dStatus, statusOld, refOn, temps, tsaDoc,
                 adcVars, serialRx, clockVars,
                 hbUp, sigNew, lastRead, fresh, emitFresh, refAtWrap>>

\* Line 473 and the rest of loop(): the flag is cleared after
\* handleConversion() has returned
ClearReady ==
  /\ UNCHANGED lkVars
  /\ pc = "return"
  /\ RDY_1' = FALSE
  /\ pc' = "loop"
  /\ LoopTail(currentTime, sampleUp)
  /\ UNCHANGED <<currentTime, channel_1, dStatus, refOn, temps, tsaDoc ,
                 adcConv, adcMux, adcData, adcDataOf, serialRx, clockVars,
                 sampleUp, sigNew, lastRead, fresh, emitFresh, refAtWrap>>

(***************************************************************************)
(* handleConversion(), lines 522-570                                       *)
(***************************************************************************)
\* adc_in[c].isRef
isRef(c) == c = 6

\* Mutant of ReadInto: the look-up stores into the slot after channel_1
ReadInto_NextSlot(c, ref) ==
  LET r == Convert(adcData, ref)
  IN  /\ dStatus' = adcStatus
      /\ temps' = (IF r.wrote THEN [temps EXCEPT ![((c + 1) % 7) + 1] = r.temp] ELSE temps)
      /\ lastRead' = adcMux
      /\ sigNew' = FALSE

\* readData(adc, ref) with channel_1 = c: the status byte and the slot of
\* temps the look-up assigned (lines 264-308)
ReadInto(c, ref) ==
  LET r == Convert(adcData, ref)
  IN  /\ dStatus' = adcStatus
      /\ temps' = (IF r.wrote THEN [temps EXCEPT ![c + 1] = r.temp] ELSE temps)
      /\ lastRead' = adcMux
      /\ sigNew' = FALSE

Written(c, ref) == IF Convert(adcData, ref).wrote THEN {c} ELSE {}

\* Mutant of WrapsAt: the cycle ends one channel early
WrapsAt_Early(c) == c >= NUM_THERMISTORS - 1

\* Mutant of WrapsAt: > in place of >=
WrapsAt_Late(c) == c > NUM_THERMISTORS

\* Line 531: if (channel_1 >= NUM_THERMISTORS)
WrapsAt(c) == c >= NUM_THERMISTORS

\* Lines 527-531: read the finished conversion into temps[channel_1], stop,
\* advance the channel index (uint8_t) and test for the end of the cycle
ReadChannel ==
  /\ UNCHANGED lkVars
  /\ pc = "read"
  /\ ReadInto(channel_1, isRef(channel_1))
  /\ fresh' = fresh \cup Written(channel_1, isRef(channel_1))
  /\ channel_1' = (channel_1 + 1) % 256
  /\ pc' = (IF WrapsAt(channel_1') THEN "wrap" ELSE "restart")
  /\ out' = <<>>
  /\ UNCHANGED <<currentTime, lastMessageTime, RDY_1, statusOld, refOn, tsaDoc ,
                 adcVars, serialRx, clockVars, sampleUp, hbUp, emitFresh, refAtWrap>>

\* serial_read(), lines 329-340: command[] is cleared and filled with the
\* bytes waiting in the receive buffer rx; n is the count returned.  (The
\* globals command and act are written here before every use, so they are
\* not kept between steps.)
serial_read(rx) == [command |-> rx, n |-> Len(rx)]

\* Lines 533-537: act = serial_read(); if (act) parse_command();  With
\* CommandSize bytes or more the buffer has no terminating zero, and the
\* bytes from the 21st on were stored behind it.
Interpret(r, ref) ==
  IF r.n # 0
    THEN parse_command(r.command, ref)
           \cup (IF r.n >= CommandSize THEN {Fault(ref)} ELSE {})
    ELSE {[refOn |-> ref, out |-> <<>>, fault |-> FALSE]}

\* The record serializeJson(tsaDoc, Serial) prints
Telemetry(doc) == [type |-> "data", message |-> "thermistors", temps |-> doc]

\* Mutant of EmitFrame: the document is printed in the branch and again
\* after it
EmitFrame_Twice(doc) == <<Telemetry(doc), Telemetry(doc)>>

\* Lines 561-562: the document is printed once
EmitFrame(doc) == <<Telemetry(doc)>>

\* Mutant of FrameOf: slot 6 is copied from temps in both branches
FrameOf_Stale(t, ref) == [i \in 1..7 |-> t[i]]

\* Lines 540-546 and 553-559: the document built from temps t
FrameOf(t, ref) == [i \in 1..7 |-> IF i = 7 /\ ~ref THEN 0 ELSE t[i]]

\* Lines 533-550 (and 561-563 when the reference is off): read the host
\* input, interpret it, then either emit the frame and reset the index, or
\* configure and start the reference input
Wrap ==
  /\ UNCHANGED lkVars
  /\ pc = "wrap"
  /\ serialRx' = <<>>
  /\ \E o \in Interpret(serial_read(serialRx), refOn) :
       /\ refOn' = o.refOn
       /\ refAtWrap' = (IF o.fault THEN refAtWrap ELSE o.refOn)
       /\ IF o.fault
            THEN /\ pc' = "fault"
                 /\ out' = o.out
                 /\ UNCHANGED <<tsaDoc, channel_1, adcConv, adcMux, fresh, emitFresh>>
          ELSE IF ~o.refOn
            THEN /\ tsaDoc' = FrameOf(temps, FALSE)
                 /\ out' = o.out \o EmitFrame(tsaDoc')
                 /\ channel_1' = 0
                 /\ pc' = "restart"
                 /\ emitFresh' = fresh
                 /\ fresh' = {}
                 /\ UNCHANGED <<adcConv, adcMux>>
            ELSE /\ adcMux' = 6
                 /\ adcConv' = 6
                 /\ pc' = "settle"
                 /\ out' = o.out
                 /\ UNCHANGED <<tsaDoc, channel_1, fresh, emitFresh>>
  /\ UNCHANGED <<currentTime, lastMessageTime, RDY_1, dStatus, statusOld, temps,
                 adcData, adcDataOf, adcStatus, clockVars,
                 sampleUp, hbUp, sigNew, lastRead>>

\* Lines 551-563: after the settle delay the reference is read at once,
\* without waiting for its ready signal; then the frame is emitted
ReadReference ==
  /\ UNCHANGED lkVars
  /\ pc = "settle"
  /\ ReadInto(channel_1, isRef(6))
  /\ tsaDoc' = FrameOf(temps', TRUE)
  /\ out' = EmitFrame(tsaDoc')
  /\ emitFresh' = fresh \cup Written(channel_1, isRef(6))
  /\ fresh' = {}
  /\ channel_1' = 0
  /\ pc' = "restart"
  /\ UNCHANGED <<currentTime, lastMessageTime, RDY_1, statusOld, refOn ,
                 adcVars, serialRx, clockVars, sampleUp, hbUp, refAtWrap>>

\* Lines 565-566: configureAdc_thermistor() selects adc_in[channel_1] and
\* sends START, which begins a conversion (replacing one still running);
\* the 50 ms settle delay follows before handleConversion() returns
Restart ==
  /\ UNCHANGED lkVars
  /\ pc = "restart"
  /\ adcMux' = channel_1
  /\ adcConv' = channel_1
  /\ pc' = "return"
  /\ out' = <<>>
  /\ UNCHANGED <<currentTime, lastMessageTime, RDY_1, channel_1, dStatus, statusOld, refOn,
                 temps, tsaDoc , adcData, adcDataOf, adcStatus, serialRx,
                 clockVars, histVars>>

(***************************************************************************)
(* Specifications                                                          *)
(***************************************************************************)
\* Acquisition and host commands, the clock standing still
Next ==
  \/ HostSend
  \/ adsReady_1
  \/ LoopIdle
  \/ LoopTake
  \/ ReadChannel
  \/ Wrap
  \/ ReadReference
  \/ Restart
  \/ ClearReady

Spec == Init /\ [][Next]_vars

\* The program with the clock running and a silent host (the reference
\* stays off, so ReadReference cannot occur)
NextClock ==
  \/ Tick
  \/ adsReady_1
  \/ LoopIdle
  \/ LoopTake
  \/ ReadChannel
  \/ Wrap
  \/ Restart
  \/ ClearReady

SpecClock == Init /\ [][NextClock]_vars

(***************************************************************************)
(* setup(), lines 414-460, and the power-on reset of the ADC               *)
(***************************************************************************)
\* The status register as the bus returns it: 0x80 (FL_POR) from a device
\* that has come out of reset, 0xFF while no device drives the line
POR_FLAG == 128

NoAnswer == 255

\* The state when setup() has sent RESET (line 433) and is about to probe:
\* nothing is started, the device answers or does not answer yet
InitBoot ==
  /\ pc = "probe"
  /\ currentTime = 0
  /\ lastMessageTime = 0
  /\ RDY_1 = FALSE
  /\ channel_1 = 0
  /\ dStatus = 0
  /\ statusOld = 255
  /\ refOn = FALSE
  /\ temps = Zero7
  /\ tsaDoc = Zero7
  /\ adcConv = -1
  /\ adcMux = 0
  /\ adcData = 0
  /\ adcDataOf = -1
  /\ adcStatus \in {POR_FLAG, NoAnswer}
  /\ serialRx = <<>>
  /\ ms = 0
  /\ out = <<>>
  /\ uptime = 0
  /\ sampleUp = 0
  /\ hbUp = -1
  /\ ticks = 0
  /\ sigNew = FALSE
  /\ lastRead = -1
  /\ fresh = {}
  /\ emitFresh = {}
  /\ refAtWrap = FALSE
  /\ lkIn = NoLookup
  /\ lkOut = NoResult

\* The ADC comes out of a power-on reset, at start-up or in the middle of
\* a run: FL_POR is set and a running conversion is lost.
AdcPowerOn ==
  /\ UNCHANGED lkVars
  /\ adcStatus # POR_FLAG
  /\ adcStatus' = POR_FLAG
  /\ adcConv' = -1
  /\ out' = <<>>
  /\ UNCHANGED <<progVars, adcMux, adcData, adcDataOf, serialRx, clockVars, histVars>>

\* Mutant of ProbeSucceeds: any non-zero status byte is taken for a device
ProbeSucceeds_NonZero(r) == r # 0

\* Line 435, negated: the probe succeeds when STATUS reads 0x80
ProbeSucceeds(r) == r = POR_FLAG

\* What regRead(ID_ADDR_MASK) may return at line 443: 0x00, or a value
\* with other bits set
IdReads == {0, 8}

\* Lines 435-442: a probe that fails prints the Error notice; after
\* delay(500) the probe is made again
ProbeFail ==
  /\ UNCHANGED lkVars
  /\ pc = "probe"
  /\ ~ProbeSucceeds(adcStatus)
  /\ out' = <<Notice("Error", "ADC 1 not found, retrying.")>>
  /\ UNCHANGED <<progVars, adcVars, serialRx, clockVars, histVars>>

\* Lines 435 and 443-458: the probe succeeds; when ID reads 0x00 the Info
\* notice is printed and STATUS is cleared; the interrupt is attached and
\* the first conversion, of input channel_1 = 0, is configured and started
ProbeOk ==
  /\ UNCHANGED lkVars
  /\ pc = "probe"
  /\ ProbeSucceeds(adcStatus)
  /\ \E id \in IdReads :
       IF id = 0
         THEN /\ out' = <<Notice("Info", "ADC 1 found")>>
              /\ adcStatus' = 0
         ELSE /\ out' = <<>>
              /\ UNCHANGED adcStatus
  /\ adcMux' = channel_1
  /\ adcConv' = channel_1
  /\ pc' = "loop"
  /\ UNCHANGED <<currentTime, lastMessageTime, RDY_1, channel_1, dStatus, statusOld, refOn,
                 temps, tsaDoc, adcData, adcDataOf, serialRx, clockVars, histVars>>

\* Acquisition with a host that also sends long lines
NextFlood ==
  \/ HostFlood
  \/ HostSend
  \/ adsReady_1
  \/ LoopIdle
  \/ LoopTake
  \/ ReadChannel
  \/ Wrap
  \/ ReadReference
  \/ Restart
  \/ ClearReady

SpecFlood == Init /\ [][NextFlood]_vars

\* setup() and the program after it, with a host and an ADC that may go
\* through a power-on reset
NextBoot ==
  \/ ProbeFail
  \/ ProbeOk
  \/ AdcPowerOn
  \/ HostSend
  \/ adsReady_1
  \/ LoopIdle
  \/ LoopTake
  \/ ReadChannel
  \/ Wrap
  \/ ReadReference
  \/ Restart
  \/ ClearReady

SpecBoot == InitBoot /\ [][NextBoot]_vars

\* The program with a clock that never stops and a silent host.  millis()
\* keeps counting and the Arduino core calls loop() for ever, so the clock
\* and the idle iteration are weakly fair.  Nothing obliges the ADC to
\* raise a ready signal.
NextStall ==
  \/ Clock
  \/ adsReady_1
  \/ LoopIdle
  \/ LoopTake
  \/ ReadChannel
  \/ Wrap
  \/ Restart
  \/ ClearReady

SpecStall == Init /\ [][NextStall]_vars /\ WF_vars(Clock) /\ WF_vars(LoopIdle)

(***************************************************************************)
(* Look-up bench: the conversion functions applied to arguments drawn from *)
(* the initial state, one application per run                              *)
(***************************************************************************)
\* Resistances tried on a table: every breakpoint, its two neighbours, the
\* middle of every pair of adjacent breakpoints, and values outside of the
\* table (centi-ohm)
TableInputs(res) ==
  {res[i] : i \in 1..dataPoints}
    \cup {res[i] - 1 : i \in 1..dataPoints}
    \cup {res[i] + 1 : i \in 1..dataPoints}
    \cup {(res[i] + res[i + 1]) \div 2 : i \in 1..(dataPoints - 1)}
    \cup {-1, 0, 100, 5000000, ResInf}

\* Raw codes tried on readData(): zero, the ends of the positive range, the
\* middle, a negative code, and the codes of RawCodes
RawInputs == {-1, 0, 1, 95000, 3000000, 4194304, ADC_FULLSCALE - 1, ADC_FULLSCALE}

LookupInputs ==
  {[fn |-> "getCelcius2", arg |-> r, ref |-> FALSE] : r \in TableInputs(resistancesTherm)}
    \cup {[fn |-> "getCelcius3", arg |-> r, ref |-> TRUE] : r \in TableInputs(resistancesRTD)}
    \cup {[fn |-> "readData", arg |-> d, ref |-> b] : d \in RawInputs, b \in BOOLEAN}

InitConv == Started /\ lkIn \in LookupInputs /\ lkOut = NoResult

Result(r) == [done |-> TRUE, wrote |-> r.wrote, temp |-> r.temp]

\* getCelcius2(lkIn.arg)
LookupTherm ==
  /\ lkIn.fn = "getCelcius2"
  /\ ~lkOut.done
  /\ lkOut' = Result(getCelcius2(lkIn.arg))
  /\ out' = <<>>
  /\ UNCHANGED <<progVars, adcVars, serialRx, clockVars, histVars, lkIn>>

\* getCelcius3(lkIn.arg)
LookupRTD ==
  /\ lkIn.fn = "getCelcius3"
  /\ ~lkOut.done
  /\ lkOut' = Result(getCelcius3(lkIn.arg))
  /\ out' = <<>>
  /\ UNCHANGED <<progVars, adcVars, serialRx, clockVars, histVars, lkIn>>

\* Lines 296-306 of readData() for the raw code lkIn.arg
ReadRaw ==
  /\ lkIn.fn = "readData"
  /\ ~lkOut.done
  /\ lkOut' = Result(Convert(lkIn.arg, lkIn.ref))
  /\ out' = <<>>
  /\ UNCHANGED <<progVars, adcVars, serialRx, clockVars, histVars, lkIn>>

NextConv == LookupTherm \/ LookupRTD \/ ReadRaw

SpecConv == InitConv /\ [][NextConv]_vars

(***************************************************************************)
(* Properties                                                              *)
(***************************************************************************)
\* Positions in o of the telemetry frames, and of the notices of a type
Frames(o) == {k \in 1..Len(o) : o[k].type = "data"}

Notices(o, type) == {k \in 1..Len(o) : o[k].type = type}

\* The step is the wrap (lines 533-550) taken by the main thread
WrapStep == pc = "wrap" /\ pc' # "wrap"

\* The step is a conversion read (line 527 or line 551)
ReadStep == (pc = "read" /\ pc' # "read") \/ (pc = "settle" /\ pc' # "settle")

\* The tokens of the host line waiting to be read
RxTokens == Tokenize(serialRx, <<>>)

IsRefWord(t) == t = <<"R", "E", "F">> \/ t = <<"R", "E", "F", "\n">>

LineRefOn == <<"R", "E", "F", " ", "O", "N">>

LineRefOff == <<"R", "E", "F", " ", "O", "F", "F">>

\* The channels a frame must hold for reference flag ref
Active(ref) == (0..5) \cup (IF ref THEN {6} ELSE {})

\* C1: every ready signal is consumed exactly once: the clearing of RDY_1
\* (line 473) never discards a signal raised since the last conversion read,
\* and every conversion read at line 527 has a signal of its own.
C1_ReadyConsumedOnce ==
  [][ /\ (RDY_1 /\ ~RDY_1') => ~sigNew
      /\ (pc = "read" /\ pc' # "read") => sigNew ]_vars

\* C2: the inputs are read in the order 0,1,2,3,4,5[,6],0,...: input c in
\* 1..5 is read right after c-1, input 6 only right after 5 and only when
\* refOn was true at the wrap, input 0 first, or after 6, or after 5 when
\* refOn was false at the wrap.
C2_ChannelOrder ==
  [][ ReadStep =>
        /\ adcMux \in 0..6
        /\ adcMux \in 1..5 => lastRead = adcMux - 1
        /\ adcMux = 6 => lastRead = 5 /\ refAtWrap
        /\ adcMux = 0 => lastRead \in {-1, 6} \/ (lastRead = 5 /\ ~refAtWrap)
        /\ lastRead = 6 => refAtWrap ]_vars

C2_Witness == lastRead = 6 /\ refAtWrap /\ pc = "restart" /\ emitFresh = 0..6

\* C3: an emitted frame holds, for every active channel, the value a
\* conversion read stored in temps since the previous frame was emitted.
C3_FrameComplete ==
  \A k \in Frames(out) :
    /\ Active(refOn) \subseteq emitFresh
    /\ \A c \in Active(refOn) : out[k].temps[c + 1] = temps[c + 1]

C3_Witness == Frames(out) # {} /\ refOn /\ emitFresh = 0..6

\* C4: an emitted frame has seven slots, and slot 6 is 0.0 when refOn is
\* false for the cycle.
C4_FrameShape ==
  \A k \in Frames(out) :
    /\ Len(out[k].temps) = 7
    /\ ~refOn => out[k].temps[7] = 0

\* A frame emitted with the reference off while temps[6] still holds the
\* reading of an earlier cycle
C4_Witness == Frames(out) # {} /\ ~refOn /\ temps[7] # 0

\* C5: a step emits one frame when it takes the channel index back to 0,
\* and none otherwise.
C5_OneFramePerWrap ==
  [][ Cardinality(Frames(out')) = (IF channel_1 # 0 /\ channel_1' = 0 THEN 1 ELSE 0) ]_vars

C5_Witness == Frames(out) # {} /\ channel_1 = 0 /\ lastRead = 5 /\ emitFresh = 0..5

\* C6: the wrap that reads the line "REF ON" leaves refOn true, the wrap
\* that reads "REF OFF" leaves it false.
C6_RefOnOff ==
  [][ WrapStep => /\ serialRx = LineRefOn => refOn'
                  /\ serialRx = LineRefOff => ~refOn' ]_vars

\* "REF OFF" has just been obeyed in a run where the reference had been on
C6_Witness ==
  /\ ~refOn
  /\ \E k \in Notices(out, "Info") : out[k].message = "Ref Off"
  /\ temps[7] # 0

\* C7: the wrap that reads a line whose first token is not REF changes
\* nothing but the output, where it puts one Error notice, and goes on as a
\* wrap without host input does.
C7_UnknownCommand ==
  [][ (WrapStep /\ RxTokens # <<>> /\ ~IsRefWord(RxTokens[1])) =>
        /\ refOn' = refOn
        /\ Cardinality(Notices(out', "Error")) = 1
        /\ pc' = (IF refOn THEN "settle" ELSE "restart")
        /\ channel_1' = (IF refOn THEN channel_1 ELSE 0)
        /\ UNCHANGED <<RDY_1, temps, dStatus, statusOld, lastMessageTime, currentTime>> ]_vars

C7_Witness ==
  /\ Cardinality(Notices(out, "Error")) = 1
  /\ refOn
  /\ pc = "settle"

\* C8: the wrap that reads a line whose first token is REF and whose second
\* token is missing or is neither ON nor OFF emits an Error notice, leaves
\* refOn as it was, and does not fault on a token strtok never produced.
C8_MalformedRef ==
  [][ (/\ WrapStep
       /\ RxTokens # <<>>
       /\ IsRefWord(RxTokens[1])
       /\ \/ Len(RxTokens) < 2
          \/ RxTokens[2] \notin {<<"O", "N">>, <<"O", "F", "F">>,
                                  <<"O", "N", "\n">>, <<"O", "F", "F", "\n">>}) =>
        /\ refOn' = refOn
        /\ Notices(out', "Error") # {}
        /\ pc' # "fault" ]_vars

\* C9: a trailing line terminator is tolerated: "REF ON\n" leaves refOn
\* true and "REF OFF\n" leaves it false.
C9_TrailingTerminator ==
  [][ WrapStep => /\ serialRx = Append(LineRefOn, "\n") => refOn'
                  /\ serialRx = Append(LineRefOff, "\n") => ~refOn' ]_vars

\* C10: the time samples of two consecutive heartbeats are at least
\* messageInterval apart, in elapsed time, also across the wrap of
\* millis().
C10_HeartbeatSpacing ==
  [][ ((\E k \in Notices(out', "Info") : out'[k] = Heartbeat) /\ hbUp # -1) =>
        hbUp' - hbUp >= messageInterval ]_vars

\* The second heartbeat, sampled after millis() has wrapped
C10_Witness ==
  /\ \E k \in Notices(out, "Info") : out[k] = Heartbeat
  /\ hbUp >= MillisModulus
  /\ hbUp = sampleUp

\* The look-up bench has applied function fn
Applied(fn) == lkOut.done /\ lkIn.fn = fn

\* The result the bench holds is the stored temperature t
Stored(t) == lkOut.wrote /\ lkOut.temp = t

\* C12: looking up the resistance of a breakpoint returns the temperature
\* of that breakpoint, for every index of resistancesTherm with
\* getCelcius2 and of resistancesRTD with getCelcius3.
C12_BreakpointExact ==
  /\ Applied("getCelcius2") =>
       \A i \in 1..dataPoints :
         lkIn.arg = resistancesTherm[i] => Stored(temperatures[i])
  /\ Applied("getCelcius3") =>
       \A i \in 1..dataPoints :
         lkIn.arg = resistancesRTD[i] => Stored(temperatures[i])

\* R lies strictly inside the range the table res covers
Inside(res, R) ==
  /\ R > Min(res[1], res[dataPoints])
  /\ R < (IF res[1] > res[dataPoints] THEN res[1] ELSE res[dataPoints])

\* The adjacent entries i and i+1 of res bracket R
Brackets(res, i, R) ==
  \/ res[i + 1] <= R /\ R <= res[i]
  \/ res[i] <= R /\ R <= res[i + 1]

\* The stored result lies between the temperatures of two adjacent entries
\* of res that bracket R
Bracketed(res, R) ==
  /\ lkOut.wrote
  /\ \E i \in 1..(dataPoints - 1) :
       /\ Brackets(res, i, R)
       /\ temperatures[i] <= lkOut.temp
       /\ lkOut.temp <= temperatures[i + 1]

\* C13: for a resistance inside the range of a table, the look-up returns a
\* temperature between the temperatures of two adjacent table entries that
\* bracket the resistance.
C13_Interpolated ==
  /\ (Applied("getCelcius2") /\ Inside(resistancesTherm, lkIn.arg)) =>
       Bracketed(resistancesTherm, lkIn.arg)
  /\ (Applied("getCelcius3") /\ Inside(resistancesRTD, lkIn.arg)) =>
       Bracketed(resistancesRTD, lkIn.arg)

\* A resistance strictly between two thermistor breakpoints, with a result
\* strictly between their temperatures
C13_Witness ==
  /\ Applied("getCelcius2")
  /\ \E i \in 1..(dataPoints - 1) :
       /\ resistancesTherm[i + 1] < lkIn.arg
       /\ lkIn.arg < resistancesTherm[i]
       /\ temperatures[i] < lkOut.temp
       /\ lkOut.temp < temperatures[i + 1]

\* C14: for a resistance outside the range of a table the look-up returns
\* the temperature of the nearest end of the table: at or above
\* resistancesTherm[0] temperatures[0], at or below the last thermistor
\* entry the last temperature, and the reverse for the RTD table.
C14_Clamped ==
  /\ Applied("getCelcius2") =>
       /\ lkIn.arg >= resistancesTherm[1] => Stored(temperatures[1])
       /\ lkIn.arg <= resistancesTherm[dataPoints] => Stored(temperatures[dataPoints])
  /\ Applied("getCelcius3") =>
       /\ lkIn.arg <= resistancesRTD[1] => Stored(temperatures[1])
       /\ lkIn.arg >= resistancesRTD[dataPoints] => Stored(temperatures[dataPoints])

\* A resistance beyond the last entry of the RTD table, clamped
C14_Witness ==
  /\ Applied("getCelcius3")
  /\ lkIn.arg > resistancesRTD[dataPoints]
  /\ Stored(temperatures[dataPoints])

\* C15: the tables are monotonic: resistancesTherm strictly decreasing and
\* resistancesRTD strictly increasing over all 111 entries.
\* (Stated at the entry the look-up argument equals; the arguments cover
\* every entry of both tables.)
C15_TablesMonotonic ==
  \A i \in 1..(dataPoints - 1) :
    /\ (Applied("getCelcius2") /\ lkIn.arg = resistancesTherm[i]) =>
         resistancesTherm[i] > resistancesTherm[i + 1]
    /\ (Applied("getCelcius3") /\ lkIn.arg = resistancesRTD[i]) =>
         resistancesRTD[i] < resistancesRTD[i + 1]

\* C16: a raw code equal to full scale (recovered voltage equal to the
\* supply, zero denominator in line 297) gives an error outcome: no
\* temperature is stored for it.
C16_FullScaleIsError ==
  (Applied("readData") /\ lkIn.arg = ADC_FULLSCALE) => ~lkOut.wrote

\* The step just taken emitted the heartbeat notice
HeartbeatEmitted == \E k \in Notices(out, "Info") : out[k] = Heartbeat

\* C11: in a run where RDY_1 stays false from some point on (no ready
\* signal arrives any more) while the clock keeps advancing, the heartbeat
\* notice is emitted infinitely often.
C11_HeartbeatWhenStalled == (<>[](~RDY_1)) => ([]<>HeartbeatEmitted)

\* A heartbeat emitted after the ready signal of the running conversion was
\* discarded: no conversion runs and none will be started
C11_Witness ==
  /\ HeartbeatEmitted
  /\ ~RDY_1
  /\ adcConv = -1
  /\ sigNew
  /\ pc = "loop"

\* C17: setup() goes past the probe, and starts the first conversion, only
\* when the probe has succeeded (STATUS read 0x80); an attempt that fails
\* prints one Error notice, starts nothing and leaves setup() at the probe.
C17_VerifiedStart ==
  [][ pc = "probe" =>
        /\ (pc' # "probe" \/ adcConv' # -1) => adcStatus = POR_FLAG
        /\ ((ProbeFail \/ ProbeOk) /\ adcStatus # POR_FLAG) =>
             /\ pc' = "probe"
             /\ adcConv' = -1
             /\ Cardinality(Notices(out', "Error")) = 1
             /\ Len(out') = 1 ]_vars

\* The first conversion has just been started, by a setup() that found the
\* device
C17_Witness ==
  /\ pc = "loop"
  /\ adcConv = 0
  /\ adcDataOf = -1
  /\ \E k \in Notices(out, "Info") : out[k].message = "ADC 1 found"

\* C18: the iteration of loop() that finds the status byte of the latest
\* read different from the recorded one, with the power-on-reset bit set,
\* leaves the status register with that bit cleared and records the latest
\* status byte as the previous one.
C18_PorCleared ==
  [][ (/\ LoopIdle \/ ClearReady
       /\ statusOld # dStatus
       /\ bitRead(dStatus, 7) = 1) =>
        /\ bitRead(adcStatus', 7) = 0
        /\ statusOld' = dStatus ]_vars

\* The step sends START: line 550 (reference input) or line 566
StartStep == (pc = "wrap" /\ pc' = "settle") \/ (pc = "restart" /\ pc' = "return")

\* C19: a configure-and-start is issued only when no conversion is running
\* and the result of the conversion started before has been read, also for
\* the start of input 0 that follows the reference input 6.
C19_OneConversionInFlight ==
  [][ StartStep => (adcConv = -1 /\ ~sigNew) ]_vars

\* C20: a conversion read takes place only after the conversion started on
\* the selected input has completed and raised its ready signal, for the
\* thermistor inputs and for the reference input 6 read at the wrap.
C20_ReadAfterReady ==
  [][ ReadStep => (sigNew /\ adcConv = -1 /\ adcDataOf = adcMux) ]_vars

\* The step takes bytes out of the Serial receive buffer (the host only
\* adds to an empty one)
ConsumesInput == serialRx # <<>> /\ serialRx' # serialRx

\* C21: refOn changes and pending host input is taken only in the wrap that
\* follows the read of input 5; the calls for inputs 0..4, the idle
\* iterations of loop() and the interrupt handler leave both alone.
C21_InputOnlyAtWrap ==
  [][ (refOn' # refOn \/ ConsumesInput) => (WrapStep /\ lastRead = 5) ]_vars

\* The wrap after input 5 has just obeyed "REF ON"
C21_Witness ==
  /\ refOn
  /\ pc = "settle"
  /\ lastRead = 5
  /\ serialRx = <<>>
  /\ \E k \in Notices(out, "Info") : out[k].message = "Ref On"

\* C22: a conversion read changes no slot of temps but that of the input
\* whose conversion was started, which is slot 6 for the reference read at
\* the wrap.
C22_ReadWritesOneSlot ==
  [][ ReadStep =>
        \A i \in 1..7 : i # adcMux + 1 => temps'[i] = temps[i] ]_vars

\* The reference read has just stored into slot 6, the thermistor slots
\* holding the readings of this cycle
C22_Witness ==
  /\ pc = "restart"
  /\ lastRead = 6
  /\ temps[7] # 0
  /\ \A i \in 1..6 : temps[i] # 0
  /\ Frames(out) # {}

\* Control is in loop() outside of handleConversion()
OutsideHandler == pc \in {"loop", "return"}

\* C23: channel_1 is at most 6, and within 0..5 whenever control is outside
\* of handleConversion(), so adc_in[channel_1] and temps[channel_1] stay
\* inside their seven entries.
C23_ChannelInRange ==
  /\ channel_1 \in 0..6
  /\ OutsideHandler => channel_1 \in 0..(NUM_THERMISTORS - 1)

\* The index at its largest value, inside handleConversion(), while the
\* reference input is being read
C23_Witness == channel_1 = 6 /\ pc = "settle" /\ adcMux = 6

\* C24: whatever the number of bytes waiting at the wrap, serial_read()
\* stores fewer than CommandSize of them, so that command[] keeps a zero
\* byte at its end, and parse_command() stores no more than TokenSlots
\* token pointers.
C24_BuffersNotOverrun ==
  [][ WrapStep =>
        /\ serial_read(serialRx).n < CommandSize
        /\ Len(Tokenize(serial_read(serialRx).command, <<>>)) <= TokenSlots ]_vars

\* C25: acquisition does not stall: whenever loop() is idle with RDY_1
\* false, a conversion is running, so that its ready signal, the next read
\* and in the end the next frame are still to come.  (In a state where none
\* is running every conversion started has raised its signal, and no step
\* of the program starts another: no read and no frame follow.)
C25_NeverStalled == ~(pc = "loop" /\ ~RDY_1 /\ adcConv = -1)

====
